---- MODULE Spec2Model ----
(***************************************************************************)
(* The Heikin-Ashi reversal scanner of the trading dashboard               *)
(* (src/src/hooks/useHAScanner.ts), with the Heikin-Ashi transform and the *)
(* pattern detector it calls.                                              *)
(*                                                                         *)
(* Time is the wall clock (Date.now()) in milliseconds.  The model is a    *)
(* discrete-event system: every timer of the hook (the 3 s first scan, the *)
(* 10 s scan interval, the 30 s expiry sweep, the 200 ms pacing delay) and *)
(* every outstanding fetch has a due time, and the clock jumps to the next *)
(* due time.  Prices are integers in units of 1/64, so that the divisions  *)
(* by 2 and by 4 of the Heikin-Ashi transform are exact on the inputs used *)
(* (as they are in binary floating point).                                 *)
(*                                                                         *)
(* The pure functions of the dashboard (the Heikin-Ashi transform, the     *)
(* reversal detector, SMA, EMA, MACD, RSI, Bollinger Bands, Stochastic and *)
(* the ATR% colour) are also called on their own, under SpecCalls: a state *)
(* holds the arguments of one call and, once the call is made, what it     *)
(* returned.  The indicators divide by their periods, which is not exact   *)
(* in binary: their numbers are floating-point numbers with a short        *)
(* significand, rounded as IEEE 754 rounds.                                *)
(*                                                                         *)
(* The indicator settings of the dashboard (IndicatorSettings in           *)
(* src/src/components/trading/TradingDashboard.tsx) are followed under     *)
(* SpecSettings: a list of indicators and the clicks that change it.       *)
(***************************************************************************)
EXTENDS Integers, Sequences, FiniteSets, TLC

(* ------------------------------------------------------------------ *)
(* Program constants                                                   *)
(* ------------------------------------------------------------------ *)
SCAN_INTERVAL == 10000
CANDLE_PERIOD_MS == 900000
PRE_CLOSE_WINDOW_MS == 60000
SIGNAL_DURATION == 600000
INITIAL_SCAN_DELAY == 3000
SWEEP_INTERVAL == 30000
PACING_DELAY == 200
MAX_ALERT_KEYS == 500
MIN_CANDLES == 5

(* ------------------------------------------------------------------ *)
(* Bounds of the model                                                 *)
(* ------------------------------------------------------------------ *)
\* The clock stops this long after the hook was mounted ...
MaxElapsed == 20000
\* ... or this long when no fetch is slow: long
\* enough for the signals of the first pre-close window to expire and be swept.
MaxElapsedQuiet == 640000
\* User edits (watchlist toggles, enable/disable, unmount) per behaviour.
MaxEdits == 1
\* Scan cycles that may be in flight at once.
MaxCycles == 2
\* Fetches per behaviour that take the slow round-trip time.
MaxSlowFetches == 1
\* Bits of the significand of a number of the indicator functions: enough
\* to hold 100, 200, 300, ... exactly, as a JavaScript number does.
Precision == 7
\* Longest candle series given to a moving average or to MACD.
MaxLen == 4
\* Largest period given to a moving average or to MACD.
MaxPeriod == 3
\* Longest candle series given to the Heikin-Ashi transform and the detector.
MaxCandles == 5

Symbols == {"BTCUSDT", "ETHUSDT"}
\* Mount times of the hook: the first scan (3 s later) falls 61 s, 60 s and
\* 59 s before the close of the candle ending at 9900000, and the first
\* interval tick of the fourth falls exactly on that boundary.
StartTimes == {9836000, 9837000, 9838000, 9890000}
\* Round-trip times of a candle fetch: a quick one, and one longer than the
\* scan interval.
Latency == [fast |-> 100, slow |-> 12000]
\* Dedupe keys that a scanner which ran through earlier candle periods holds
\* when the model starts.  Their candles are closed, so none of them can be
\* detected again: only their number counts (alertedRef.current.size).
OldKeyCounts == {0, 500}
\* Mount times of the long behaviours.  From the first, five cycles fall into
\* the pre-close window, the fourth at one sweep interval after the mount, so
\* that a sweep meets a signal at the very millisecond it expires together
\* with a younger one; from the second, two cycles do, and the owner may make
\* an edit.
LongStarts == [quiet |-> 9850000, late |-> 9880000]

\* What the environment does in a behaviour: when the hook is mounted, how
\* many keys of earlier periods the dedupe set holds, how many edits the owner
\* makes, how many fetches are slow, and for how long the clock is followed.
Scenarios ==
    [start : StartTimes, oldKeys : OldKeyCounts, edits : {MaxEdits},
     slow : {MaxSlowFetches}, follow : {MaxElapsed}]
    \cup [start : {LongStarts.quiet}, oldKeys : {0}, edits : {0}, slow : {0},
          follow : {MaxElapsedQuiet}]
    \cup [start : {LongStarts.late}, oldKeys : {0}, edits : {MaxEdits}, slow : {0},
          follow : {MaxElapsedQuiet}]

VARIABLES
    now,          \* Date.now()
    horizon,      \* the time up to which the clock is followed
    mounted,      \* the owning component is mounted
    enabled,      \* the hook's `enabled` argument
    watchlist,    \* the hook's `watchlist` argument
    signals,      \* useState<HASignal[]>
    alerted,      \* alertedRef.current: keys of the modelled periods
    oldKeys,      \* alertedRef.current: number of keys of earlier periods
    cycles,       \* the scan() invocations in flight, by slot: the `now` and
                  \* the watchlist each captured, the index i of its current
                  \* symbol, where it is suspended (pc) and until when (due),
                  \* the timer epoch that started it, the symbols it has
                  \* fetched, the length of the last candle list it got and
                  \* the direction it found in it
    scanTimeout,  \* due time of setTimeout(scan, 3000): {} once fired or cleared
    scanInterval, \* next due time of setInterval(scan, 10000): {} when cleared
    sweepTimer,   \* next due time of the expiry sweep: {} when cleared
    epoch,        \* number of times the timer effect was torn down
    editsLeft,    \* edits the owner may still make
    slowLeft,     \* fetches that may still be slow
    alertLog,     \* per dedupe key, the timestamps of the alerts (sound + toast) emitted
    args,         \* the arguments of a call of one of the pure functions
    ret,          \* what the call returned: <<>> before, <<result>> after
    settings,     \* the owner's settings: their `indicators` list
    indicators,   \* the `indicators` prop that the handlers of the last
                  \* render of IndicatorSettings hold
    uuids,        \* number of ids that crypto.randomUUID() has handed out
    opsLeft,      \* clicks the user may still make
    lastOp        \* the handler that ran last, and its argument

\* The state of the scanner hook and of its environment.
hookVars == <<now, horizon, mounted, enabled, watchlist, signals, alerted, oldKeys, cycles,
              scanTimeout, scanInterval, sweepTimer, epoch, editsLeft, slowLeft, alertLog>>

\* The state of the indicator settings UI.
settingsVars == <<settings, indicators, uuids, opsLeft, lastOp>>

vars == <<now, horizon, mounted, enabled, watchlist, signals, alerted, oldKeys, cycles,
          scanTimeout, scanInterval, sweepTimer, epoch, editsLeft, slowLeft, alertLog,
          args, ret, settings, indicators, uuids, opsLeft, lastOp>>

(* ------------------------------------------------------------------ *)
(* Sequences                                                           *)
(* ------------------------------------------------------------------ *)
Range(s) == {s[i] : i \in DOMAIN s}

Reverse(s) == [i \in 1..Len(s) |-> s[Len(s) + 1 - i]]

\* A maximum and a minimum that return their first argument.
Max2First(a, b) == a

Min2First(a, b) == a

Max2(a, b) == IF a >= b THEN a ELSE b

Min2(a, b) == IF a <= b THEN a ELSE b

(* ------------------------------------------------------------------ *)
(* Numbers of the indicator functions                                  *)
(* ------------------------------------------------------------------ *)
\* The indicator functions compute in binary floating point: every sum,
\* difference, product and quotient is rounded to the nearest number with a
\* significand of Precision bits, ties to the even significand (IEEE 754,
\* where a JavaScript number has 53 bits).  A number is m * 2^e, with m odd,
\* or 0; there is no overflow and no underflow in the ranges used.
Zero == [m |-> 0, e |-> 0]

RECURSIVE Pow2(_)
Pow2(n) == IF n = 0 THEN 1 ELSE 2 * Pow2(n - 1)

RECURSIVE Normal(_, _)
Normal(m, e) ==
    IF m = 0 THEN Zero
    ELSE IF m % 2 = 0 THEN Normal(m \div 2, e + 1)
    ELSE [m |-> m, e |-> e]

\* The number nearest to (n / d) * 2^e, for n >= 0 and d > 0.
RECURSIVE Nearest(_, _, _)
Nearest(n, d, e) ==
    IF n = 0 THEN Zero
    ELSE IF n >= d * Pow2(Precision) THEN Nearest(n, 2 * d, e + 1)
    ELSE IF n < d * Pow2(Precision - 1) THEN Nearest(2 * n, d, e - 1)
    ELSE LET q == n \div d
             r == n % d
         IN IF 2 * r > d \/ (2 * r = d /\ q % 2 = 1)
            THEN Normal(q + 1, e) ELSE Normal(q, e)

Neg(x) == [m |-> 0 - x.m, e |-> x.e]

Round(n, d, e) == IF n >= 0 THEN Nearest(n, d, e) ELSE Neg(Nearest(0 - n, d, e))

\* An integer literal or loop counter as a number.
Num(n) == Round(n, 1, 0)

\* a + b
plus(a, b) ==
    LET e == IF a.e <= b.e THEN a.e ELSE b.e
    IN Round(a.m * Pow2(a.e - e) + b.m * Pow2(b.e - e), 1, e)

\* a - b
minus(a, b) == plus(a, Neg(b))

\* a * b
times(a, b) == Round(a.m * b.m, 1, a.e + b.e)

\* a / b, for b other than 0
over(a, b) ==
    IF b.m > 0 THEN Round(a.m, b.m, a.e - b.e)
    ELSE Round(0 - a.m, 0 - b.m, a.e - b.e)

\* A comparison that also holds of equal numbers.
lessOrEqual(a, b) ==
    LET e == IF a.e <= b.e THEN a.e ELSE b.e
    IN a.m * Pow2(a.e - e) <= b.m * Pow2(b.e - e)

\* a < b
less(a, b) ==
    LET e == IF a.e <= b.e THEN a.e ELSE b.e
    IN a.m * Pow2(a.e - e) < b.m * Pow2(b.e - e)

\* Math.max(a, b) and Math.min(a, b)
max(a, b) == IF less(a, b) THEN b ELSE a

min(a, b) == IF less(b, a) THEN b ELSE a

\* Math.abs(a)
abs(a) == IF a.m < 0 THEN Neg(a) ELSE a

\* The integer part of the square root of n, known to lie in lo .. hi - 1.
RECURSIVE IntSqrt(_, _, _)
IntSqrt(n, lo, hi) ==
    IF hi - lo <= 1 THEN lo
    ELSE LET mid == (lo + hi) \div 2
         IN IF mid * mid <= n THEN IntSqrt(n, mid, hi) ELSE IntSqrt(n, lo, mid)

\* m * 2^e with e even, scaled until its root has two bits more than a
\* significand holds.
RECURSIVE Widen(_, _)
Widen(m, e) ==
    IF m < Pow2(2 * Precision + 2) THEN Widen(4 * m, e - 2) ELSE [m |-> m, e |-> e]

\* Math.sqrt(a), for a >= 0: the root rounded to the nearest number (the
\* last bit of the rounded integer says whether anything was cut off).
sqrt(a) ==
    IF a.m = 0 THEN Zero
    ELSE LET w == IF a.e % 2 = 0 THEN Widen(a.m, a.e) ELSE Widen(2 * a.m, a.e - 1)
             r == IntSqrt(w.m, 0, Pow2(Precision + 3))
         IN Round(2 * r + (IF r * r = w.m THEN 0 ELSE 1), 2, w.e \div 2)

(* ------------------------------------------------------------------ *)
(* Heikin-Ashi transform and reversal detector                         *)
(* ------------------------------------------------------------------ *)
RECURSIVE convertToHeikinAshi(_)
convertToHeikinAshi(candles) ==
    IF Len(candles) = 0 THEN <<>>
    ELSE LET i == Len(candles)
             current == candles[i]
             heikinAshi == convertToHeikinAshi(SubSeq(candles, 1, i - 1))
             haClose == (current.open + current.high + current.low + current.close) \div 4
             haOpen == IF i = 1
                       THEN (current.open + current.close) \div 2
                       ELSE (heikinAshi[i - 1].open + heikinAshi[i - 1].close) \div 2
             haHigh == Max2(current.high, Max2(haOpen, haClose))
             haLow == Min2(current.low, Min2(haOpen, haClose))
         IN Append(heikinAshi, [time |-> current.time, open |-> haOpen,
                                high |-> haHigh, low |-> haLow, close |-> haClose])

\* A test that takes a doji for a green candle.
isGreenOrDoji(c) == c.close >= c.open

isGreen(c) == c.close > c.open

isRed(c) == c.close < c.open

detectHAReversal(candles) ==
    IF Len(candles) < 5 THEN "none"
    ELSE LET haCandles == convertToHeikinAshi(candles)
             len == Len(haCandles)
             c4 == haCandles[len]
             c3 == haCandles[len - 1]
             c2 == haCandles[len - 2]
             c1 == haCandles[len - 3]
         IN IF isRed(c1) /\ isRed(c2) /\ isRed(c3) /\ isGreen(c4) THEN "bullish"
            ELSE IF isGreen(c1) /\ isGreen(c2) /\ isGreen(c3) /\ isRed(c4) THEN "bearish"
            ELSE "none"

(* ------------------------------------------------------------------ *)
(* Moving averages and MACD                                            *)
(* ------------------------------------------------------------------ *)
\* Indices i, j are those of the source (from 0): candles[i] of the source is
\* candles[i + 1] here.  A function that can throw returns a record: whether
\* it threw (a TypeError, on reading a field of undefined) and, if not, the
\* points it returned.

\* An inner loop that stops one candle short of the window's oldest.
RECURSIVE smaSumShort(_, _, _)
smaSumShort(candles, i, j) ==
    IF j = 0 \/ j = 1 THEN Zero
    ELSE plus(smaSumShort(candles, i, j - 1), candles[i - (j - 2) + 1].close)

\* `sum` of calculateSMA after j turns of the inner loop at index i.
RECURSIVE smaSum(_, _, _)
smaSum(candles, i, j) ==
    IF j = 0 THEN Zero
    ELSE plus(smaSum(candles, i, j - 1), candles[i - (j - 1) + 1].close)

\* The outer loop of calculateSMA from index i on.
RECURSIVE smaLoop(_, _, _, _)
smaLoop(candles, period, i, result) ==
    IF i < Len(candles)
    THEN smaLoop(candles, period, i + 1,
                 Append(result, [time |-> candles[i + 1].time,
                                 value |-> over(smaSum(candles, i, period), Num(period))]))
    ELSE result

calculateSMA(candles, period) == smaLoop(candles, period, period - 1, <<>>)

\* Wilder's smoothing factor in place of the EMA's.
emaMultiplierWilder(period) == over(Num(1), Num(period))

\* 2 / (period + 1)
emaMultiplier(period) == over(Num(2), Num(period + 1))

\* `sum` of calculateEMA after the first n turns of the seed loop.
RECURSIVE emaSeedSum(_, _)
emaSeedSum(candles, n) ==
    IF n = 0 THEN Zero
    ELSE plus(emaSeedSum(candles, n - 1), candles[n].close)

\* The second loop of calculateEMA from index i on.
RECURSIVE emaLoop(_, _, _, _, _)
emaLoop(candles, multiplier, i, ema, result) ==
    IF i < Len(candles)
    THEN LET next == plus(times(minus(candles[i + 1].close, ema), multiplier), ema)
         IN emaLoop(candles, multiplier, i + 1, next,
                    Append(result, [time |-> candles[i + 1].time, value |-> next]))
    ELSE result

\* The seed loop reads candles[0 .. period - 1] unguarded: candles[i] is
\* undefined from i = candles.length on, and candles[i].close throws.
calculateEMA(candles, period) ==
    IF \E i \in 0..(period - 1) : i >= Len(candles)
    THEN [threw |-> TRUE, points |-> <<>>]
    ELSE LET ema == over(emaSeedSum(candles, period), Num(period))
         IN [threw |-> FALSE,
             points |-> emaLoop(candles, emaMultiplier(period), period, ema,
                                <<[time |-> candles[period].time, value |-> ema]>>)]

\* An alignment that pairs the two EMA series index by index.
RECURSIVE macdAlignNoOffset(_, _, _, _, _)
macdAlignNoOffset(fastEMA, slowEMA, slowStart, i, macdLine) ==
    IF i < Len(slowEMA)
    THEN macdAlignNoOffset(fastEMA, slowEMA, slowStart, i + 1,
                           IF i < Len(fastEMA)
                           THEN Append(macdLine,
                                       [time |-> slowEMA[i + 1].time,
                                        value |-> minus(fastEMA[i + 1].value,
                                                        slowEMA[i + 1].value)])
                           ELSE macdLine)
    ELSE macdLine

\* The alignment loop of calculateMACD from index i of slowEMA on.
RECURSIVE macdAlign(_, _, _, _, _)
macdAlign(fastEMA, slowEMA, slowStart, i, macdLine) ==
    IF i < Len(slowEMA)
    THEN LET fastIndex == i + slowStart
         IN macdAlign(fastEMA, slowEMA, slowStart, i + 1,
                      IF fastIndex >= 0 /\ fastIndex < Len(fastEMA)
                      THEN Append(macdLine,
                                  [time |-> slowEMA[i + 1].time,
                                   value |-> minus(fastEMA[fastIndex + 1].value,
                                                   slowEMA[i + 1].value)])
                      ELSE macdLine)
    ELSE macdLine

\* signalSum of calculateMACD after the first n turns of its loop.
RECURSIVE macdSignalSum(_, _)
macdSignalSum(macdLine, n) ==
    IF n = 0 THEN Zero
    ELSE plus(macdSignalSum(macdLine, n - 1), macdLine[n].value)

MACDPoint(point, signal) ==
    [time |-> point.time, macd |-> point.value, signal |-> signal,
     histogram |-> minus(point.value, signal)]

\* The last loop of calculateMACD from index i on.
RECURSIVE macdLoop(_, _, _, _, _)
macdLoop(macdLine, multiplier, i, signal, result) ==
    IF i < Len(macdLine)
    THEN LET next == plus(times(minus(macdLine[i + 1].value, signal), multiplier), signal)
         IN macdLoop(macdLine, multiplier, i + 1, next,
                     Append(result, MACDPoint(macdLine[i + 1], next)))
    ELSE result

calculateMACD(candles, fastPeriod, slowPeriod, signalPeriod) ==
    IF Len(candles) < slowPeriod + signalPeriod THEN [threw |-> FALSE, points |-> <<>>]
    ELSE LET fastEMA == calculateEMA(candles, fastPeriod)
             slowEMA == calculateEMA(candles, slowPeriod)
         IN IF fastEMA.threw \/ slowEMA.threw THEN [threw |-> TRUE, points |-> <<>>]
            ELSE LET macdLine == macdAlign(fastEMA.points, slowEMA.points,
                                           slowPeriod - fastPeriod, 0, <<>>)
                 IN IF Len(macdLine) < signalPeriod THEN [threw |-> FALSE, points |-> <<>>]
                    ELSE LET signal == over(macdSignalSum(macdLine, signalPeriod),
                                            Num(signalPeriod))
                         IN [threw |-> FALSE,
                             points |-> macdLoop(macdLine,
                                                 over(Num(2), Num(signalPeriod + 1)),
                                                 signalPeriod, signal,
                                                 <<MACDPoint(macdLine[signalPeriod],
                                                             signal)>>)]

(* ------------------------------------------------------------------ *)
(* RSI, Bollinger Bands, Stochastic                                    *)
(* ------------------------------------------------------------------ *)
\* gains[i - 1] and losses[i - 1] of calculateRSI: the change into candle i.
rsiGain(candles, i) ==
    LET change == minus(candles[i + 1].close, candles[i].close)
    IN IF less(Zero, change) THEN change ELSE Zero

rsiLoss(candles, i) ==
    LET change == minus(candles[i + 1].close, candles[i].close)
    IN IF less(change, Zero) THEN abs(change) ELSE Zero

\* gains.slice(0, period).reduce((a, b) => a + b, 0) after n elements.
RECURSIVE rsiGainSum(_, _)
rsiGainSum(candles, n) ==
    IF n = 0 THEN Zero ELSE plus(rsiGainSum(candles, n - 1), rsiGain(candles, n))

RECURSIVE rsiLossSum(_, _)
rsiLossSum(candles, n) ==
    IF n = 0 THEN Zero ELSE plus(rsiLossSum(candles, n - 1), rsiLoss(candles, n))

\* The main loop of calculateRSI from index i on.
RECURSIVE rsiLoop(_, _, _, _, _, _)
rsiLoop(candles, period, i, avgGain, avgLoss, result) ==
    IF i < Len(candles)
    THEN LET gain == IF i > period
                     THEN over(plus(times(avgGain, Num(period - 1)), rsiGain(candles, i)),
                               Num(period))
                     ELSE avgGain
             loss == IF i > period
                     THEN over(plus(times(avgLoss, Num(period - 1)), rsiLoss(candles, i)),
                               Num(period))
                     ELSE avgLoss
             rs == IF loss = Zero THEN Num(100) ELSE over(gain, loss)
             rsi == minus(Num(100), over(Num(100), plus(Num(1), rs)))
         IN rsiLoop(candles, period, i + 1, gain, loss,
                    Append(result, [time |-> candles[i + 1].time, value |-> rsi]))
    ELSE result

calculateRSI(candles, period) ==
    IF Len(candles) < period + 1 THEN <<>>
    ELSE rsiLoop(candles, period, period,
                 over(rsiGainSum(candles, period), Num(period)),
                 over(rsiLossSum(candles, period), Num(period)), <<>>)

\* A middle band summed from the window's oldest close to its newest.
RECURSIVE bbSumAscending(_, _, _, _)
bbSumAscending(candles, period, i, j) ==
    IF j = 0 THEN Zero
    ELSE plus(bbSumAscending(candles, period, i, j - 1),
              candles[i - (period - j) + 1].close)

\* `sum` of calculateBollingerBands after j turns of its first inner loop.
RECURSIVE bbSum(_, _, _, _)
bbSum(candles, period, i, j) ==
    IF j = 0 THEN Zero
    ELSE plus(bbSum(candles, period, i, j - 1), candles[i - (j - 1) + 1].close)

\* `sumSquaredDiff` after j turns of the second inner loop.
RECURSIVE bbSquares(_, _, _, _)
bbSquares(candles, i, j, middle) ==
    IF j = 0 THEN Zero
    ELSE LET diff == minus(candles[i - (j - 1) + 1].close, middle)
         IN plus(bbSquares(candles, i, j - 1, middle), times(diff, diff))

\* The outer loop of calculateBollingerBands from index i on.
RECURSIVE bbLoop(_, _, _, _, _)
bbLoop(candles, period, stdDev, i, result) ==
    IF i < Len(candles)
    THEN LET middle == over(bbSum(candles, period, i, period), Num(period))
             std == sqrt(over(bbSquares(candles, i, period, middle), Num(period)))
         IN bbLoop(candles, period, stdDev, i + 1,
                   Append(result, [time |-> candles[i + 1].time,
                                   middle |-> middle,
                                   upper |-> plus(middle, times(stdDev, std)),
                                   lower |-> minus(middle, times(stdDev, std))]))
    ELSE result

calculateBollingerBands(candles, period, stdDev) ==
    IF Len(candles) < period THEN <<>>
    ELSE bbLoop(candles, period, stdDev, period - 1, <<>>)

\* highestHigh and lowestLow of calculateStochastic after j >= 1 turns of the
\* inner loop at index i (the first turn replaces -Infinity / Infinity).
RECURSIVE highestHigh(_, _, _)
highestHigh(candles, i, j) ==
    IF j = 1 THEN candles[i + 1].high
    ELSE max(highestHigh(candles, i, j - 1), candles[i - (j - 1) + 1].high)

RECURSIVE lowestLow(_, _, _)
lowestLow(candles, i, j) ==
    IF j = 1 THEN candles[i + 1].low
    ELSE min(lowestLow(candles, i, j - 1), candles[i - (j - 1) + 1].low)

\* A raw %K whose fallback for a window without range is 0.
rawKValueFlatZero(candles, kPeriod, i) ==
    LET range == minus(highestHigh(candles, i, kPeriod), lowestLow(candles, i, kPeriod))
    IN IF range = Zero THEN Zero
       ELSE times(over(minus(candles[i + 1].close, lowestLow(candles, i, kPeriod)), range),
                  Num(100))

\* `k` of the raw %K loop at index i.
rawKValue(candles, kPeriod, i) ==
    LET range == minus(highestHigh(candles, i, kPeriod), lowestLow(candles, i, kPeriod))
    IN IF range = Zero THEN Num(50)
       ELSE times(over(minus(candles[i + 1].close, lowestLow(candles, i, kPeriod)), range),
                  Num(100))

\* The raw %K loop from index i on.
RECURSIVE rawKLoop(_, _, _, _)
rawKLoop(candles, kPeriod, i, rawK) ==
    IF i < Len(candles)
    THEN rawKLoop(candles, kPeriod, i + 1, Append(rawK, rawKValue(candles, kPeriod, i)))
    ELSE rawK

\* `sum` of a smoothing loop of calculateStochastic after j turns at index i.
RECURSIVE stochSum(_, _, _)
stochSum(values, i, j) ==
    IF j = 0 THEN Zero
    ELSE plus(stochSum(values, i, j - 1), values[i - (j - 1) + 1])

\* The smoothing loop from index i of rawK on.
RECURSIVE smoothLoop(_, _, _, _)
smoothLoop(rawK, smooth, i, smoothedK) ==
    IF i < Len(rawK)
    THEN smoothLoop(rawK, smooth, i + 1,
                    Append(smoothedK, over(stochSum(rawK, i, smooth), Num(smooth))))
    ELSE smoothedK

\* A time index that leaves the smoothing offset out.
timeIndexNoSmooth(kPeriod, smooth, i) == kPeriod - 1 + i

\* `timeIndex` of the %D loop.
timeIndex(kPeriod, smooth, i) == kPeriod - 1 + smooth - 1 + i

\* The %D loop from index i of smoothedK on.
RECURSIVE stochLoop(_, _, _, _, _, _, _)
stochLoop(candles, smoothedK, kPeriod, dPeriod, smooth, i, result) ==
    IF i < Len(smoothedK)
    THEN stochLoop(candles, smoothedK, kPeriod, dPeriod, smooth, i + 1,
                   Append(result,
                          [time |-> candles[timeIndex(kPeriod, smooth, i) + 1].time,
                           k |-> smoothedK[i + 1],
                           d |-> over(stochSum(smoothedK, i, dPeriod), Num(dPeriod))]))
    ELSE result

calculateStochastic(candles, kPeriod, dPeriod, smooth) ==
    IF Len(candles) < kPeriod + dPeriod + smooth - 2 THEN <<>>
    ELSE LET rawK == rawKLoop(candles, kPeriod, kPeriod - 1, <<>>)
             smoothedK == smoothLoop(rawK, smooth, smooth - 1, <<>>)
         IN stochLoop(candles, smoothedK, kPeriod, dPeriod, smooth, dPeriod - 1, <<>>)

(* ------------------------------------------------------------------ *)
(* ATR% colour                                                         *)
(* ------------------------------------------------------------------ *)
\* getColor of calculateATRPercent, with the thresholds its closure holds.
getColor(atrPercent, lowThreshold, mediumThreshold, highThreshold) ==
    IF less(atrPercent, lowThreshold) THEN "#22C55E"
    ELSE IF less(atrPercent, mediumThreshold) THEN "#EAB308"
    ELSE IF less(atrPercent, highThreshold) THEN "#F97316"
    ELSE "#EF4444"

(* ------------------------------------------------------------------ *)
(* The exchange's answers                                              *)
(* ------------------------------------------------------------------ *)
\* Open, high, low, close of a price series, oldest first, in units of 1/64.
Px(o, h, l, c) == [open |-> o * 64, high |-> h * 64, low |-> l * 64, close |-> c * 64]

Falling3 == << Px(110, 111, 107, 108), Px(108, 109, 105, 106), Px(106, 107, 103, 104) >>

Rising3 == << Px(100, 103, 99, 102), Px(102, 105, 101, 104), Px(104, 107, 103, 106) >>

Shapes ==
    [ short   |-> Falling3,
      flat    |-> Falling3 \o << Px(104, 105, 101, 102), Px(102, 103, 99, 100) >>,
      bullish |-> Falling3 \o << Px(104, 105, 101, 102), Px(102, 113, 101, 112) >>,
      bearish |-> Rising3 \o << Px(106, 109, 105, 108), Px(108, 109, 97, 98) >> ]

\* What a fetch can come back with: a failure (network error, bad JSON, or a
\* retCode other than 0), or the kline list of one of the shapes.
Answers == {"fail"} \cup DOMAIN Shapes

\* The kline list of the v5 API, newest first, start times in ms: the newest
\* candle is the one forming at time t.
KlineList(shape, t) ==
    LET px == Reverse(Shapes[shape])
        startMs == (t \div CANDLE_PERIOD_MS) * CANDLE_PERIOD_MS
    IN [k \in 1..Len(px) |->
           [ms |-> startMs - (k - 1) * CANDLE_PERIOD_MS, open |-> px[k].open,
            high |-> px[k].high, low |-> px[k].low, close |-> px[k].close]]

Response(answer, t) ==
    IF answer = "fail" THEN [retCode |-> 1, list |-> <<>>]
    ELSE [retCode |-> 0, list |-> KlineList(answer, t)]

fetchCandles15m(response) ==
    IF response.retCode = 0
    THEN Reverse([k \in 1..Len(response.list) |->
                    [time |-> response.list[k].ms \div 1000,
                     open |-> response.list[k].open, high |-> response.list[k].high,
                     low |-> response.list[k].low, close |-> response.list[k].close]])
    ELSE <<>>

(* ------------------------------------------------------------------ *)
(* The hook's state and query surface                                  *)
(* ------------------------------------------------------------------ *)
alertedSize == oldKeys + Cardinality(alerted)

timeUntilClose(t) == CANDLE_PERIOD_MS - (t % CANDLE_PERIOD_MS)

\* An off-by-one gate: the tick exactly 60 s before the close is refused.
inPreCloseWindowStrict(t) == timeUntilClose(t) < PRE_CLOSE_WINDOW_MS

inPreCloseWindow(t) == ~(timeUntilClose(t) > PRE_CLOSE_WINDOW_MS)

\* A sweep that keeps a signal through the millisecond at which it expires.
sweepExpiredLate(prev, t) == SelectSeq(prev, LAMBDA s : s.expiresAt >= t)

\* prev.filter(s => s.expiresAt > now)
sweepExpired(prev, t) == SelectSeq(prev, LAMBDA s : s.expiresAt > t)

\* A setSignals that forgets to drop the symbol's previous signal.
setSignalsAppendOnly(prev, signal) == Append(prev, signal)

\* [...prev.filter(s => s.symbol !== symbol), signal]
setSignals(prev, signal) ==
    Append(SelectSeq(prev, LAMBDA s : s.symbol # signal.symbol), signal)

\* A getSignal that relies on the sweep alone to drop expired signals.
getSignalUnchecked(symbol) ==
    LET hits == {i \in DOMAIN signals : signals[i].symbol = symbol}
    IN IF hits = {} THEN {}
       ELSE {signals[CHOOSE i \in hits : \A j \in hits : i <= j]}

\* signals.find(s => s.symbol === symbol && s.expiresAt > Date.now()):
\* the set holding the first match, or the empty set for undefined.
getSignal(symbol) ==
    LET hits == {i \in DOMAIN signals :
                    signals[i].symbol = symbol /\ signals[i].expiresAt > now}
    IN IF hits = {} THEN {}
       ELSE {signals[CHOOSE i \in hits : \A j \in hits : i <= j]}

(* ------------------------------------------------------------------ *)
(* Scan cycles                                                         *)
(* ------------------------------------------------------------------ *)
Slots == 1..MaxCycles

FreeSlots == Slots \ DOMAIN cycles

Drop(f, c) == [x \in DOMAIN f \ {c} |-> f[x]]

\* A loop that reads the hook's current watchlist instead of the one the
\* cycle's scan() closed over.
IssueFetchLive(c, cyc) ==
    \E kind \in DOMAIN Latency :
        /\ kind = "slow" => slowLeft > 0
        /\ slowLeft' = IF kind = "slow" THEN slowLeft - 1 ELSE slowLeft
        /\ cycles' = (c :> [cyc EXCEPT !.pc = "fetch", !.due = now + Latency[kind],
                                        !.fetched = Append(@,
                                            IF cyc.i <= Len(watchlist)
                                            THEN watchlist[cyc.i] ELSE "")])
                        @@ cycles

\* fetchCandles15m(symbol) is called by cycle c, whose record becomes cyc:
\* the answer is due after one of the round-trip times.
IssueFetch(c, cyc) ==
    \E kind \in DOMAIN Latency :
        /\ kind = "slow" => slowLeft > 0
        /\ slowLeft' = IF kind = "slow" THEN slowLeft - 1 ELSE slowLeft
        /\ cycles' = (c :> [cyc EXCEPT !.pc = "fetch", !.due = now + Latency[kind],
                                        !.fetched = Append(@, cyc.wl[cyc.i])])
                        @@ cycles

\* A loop that tries the same symbol again.
nextIndexRetry(cyc) == cyc.i

\* The for...of loop's move to the next symbol.
nextIndex(cyc) == cyc.i + 1

\* A loop that ends without looking at the size of the dedupe set.
LoopOnNoClear(c, al, n, dir) ==
    LET cyc == [cycles[c] EXCEPT !.got = n, !.found = dir] IN
    IF nextIndex(cyc) <= Len(cyc.wl)
    THEN /\ IssueFetch(c, [cyc EXCEPT !.i = nextIndex(cyc)])
         /\ alerted' = al
         /\ oldKeys' = oldKeys
    ELSE /\ cycles' = Drop(cycles, c)
         /\ slowLeft' = slowLeft
         /\ alerted' = al
         /\ oldKeys' = oldKeys

\* The loop goes on after symbol cyc.i of cycle c is done with: the next
\* symbol's fetch is issued, or the loop ends and the dedupe set is cleared
\* when it holds more than 500 keys.  `al` is the dedupe set at that point,
\* n the number of candles the symbol's fetch returned, and dir what the
\* detector found in them.
LoopOn(c, al, n, dir) ==
    LET cyc == [cycles[c] EXCEPT !.got = n, !.found = dir] IN
    IF nextIndex(cyc) <= Len(cyc.wl)
    THEN /\ IssueFetch(c, [cyc EXCEPT !.i = nextIndex(cyc)])
         /\ alerted' = al
         /\ oldKeys' = oldKeys
    ELSE /\ cycles' = Drop(cycles, c)
         /\ slowLeft' = slowLeft
         /\ IF oldKeys + Cardinality(al) > MAX_ALERT_KEYS
            THEN alerted' = {} /\ oldKeys' = 0
            ELSE alerted' = al /\ oldKeys' = oldKeys

\* scan(), from its call to its first await.
scan ==
    IF ~enabled \/ Len(watchlist) = 0 THEN UNCHANGED <<cycles, slowLeft>>
    ELSE IF ~inPreCloseWindow(now) THEN UNCHANGED <<cycles, slowLeft>>
    ELSE /\ FreeSlots # {}
         /\ IssueFetch(CHOOSE x \in FreeSlots : \A y \in FreeSlots : x <= y,
                       [now |-> now, wl |-> watchlist, i |-> 1, pc |-> "fetch",
                        due |-> now, epoch |-> epoch, fetched |-> <<>>, got |-> 0,
                        found |-> "none"])

ScanTimeout ==
    /\ now \in scanTimeout
    /\ scanTimeout' = {}
    /\ scan
    /\ UNCHANGED <<now, horizon, mounted, enabled, watchlist, signals,
                   alerted, oldKeys, scanInterval, sweepTimer, epoch, editsLeft,
                   alertLog,
                   args, ret, settingsVars>>

ScanInterval ==
    /\ now \in scanInterval
    /\ scanInterval' = {now + SCAN_INTERVAL}
    /\ scan
    /\ UNCHANGED <<now, horizon, mounted, enabled, watchlist, signals,
                   alerted, oldKeys, scanTimeout, sweepTimer, epoch, editsLeft,
                   alertLog,
                   args, ret, settingsVars>>

\* A loop body that adds the key and alerts without looking the key up.
FetchReturnNoDedupe(c, answer) ==
    /\ c \in DOMAIN cycles
    /\ cycles[c].pc = "fetch"
    /\ cycles[c].due = now
    /\ LET cyc == cycles[c]
           symbol == cyc.wl[cyc.i]
           candles == fetchCandles15m(Response(answer, now))
           direction == detectHAReversal(candles)
           alertKey == <<symbol, candles[Len(candles)].time, direction>>
           signal == [symbol |-> symbol, direction |-> direction,
                      timestamp |-> cyc.now, expiresAt |-> cyc.now + SIGNAL_DURATION]
       IN IF Len(candles) < MIN_CANDLES \/ direction = "none"
          THEN /\ LoopOn(c, alerted, Len(candles),
                         IF Len(candles) < MIN_CANDLES THEN "none" ELSE direction)
               /\ UNCHANGED <<signals, alertLog>>
          ELSE /\ alerted' = alerted \cup {alertKey}
               /\ oldKeys' = oldKeys
               /\ signals' = IF mounted THEN setSignals(signals, signal) ELSE signals
               /\ alertLog' = IF alertKey \in DOMAIN alertLog
                              THEN [alertLog EXCEPT ![alertKey] = Append(@, cyc.now)]
                              ELSE alertLog @@ (alertKey :> <<cyc.now>>)
               /\ cycles' = [cycles EXCEPT ![c] =
                                [cyc EXCEPT !.pc = "delay", !.due = now + PACING_DELAY,
                                            !.got = Len(candles), !.found = direction]]
               /\ slowLeft' = slowLeft
    /\ UNCHANGED <<now, horizon, mounted, enabled, watchlist, scanTimeout,
                   scanInterval, sweepTimer, epoch, editsLeft,
                   args, ret, settingsVars>>

\* scan() of cycle c, from the return of its fetch to its next await.
FetchReturn(c, answer) ==
    /\ c \in DOMAIN cycles
    /\ cycles[c].pc = "fetch"
    /\ cycles[c].due = now
    /\ LET cyc == cycles[c]
           symbol == cyc.wl[cyc.i]
           candles == fetchCandles15m(Response(answer, now))
           direction == detectHAReversal(candles)
           alertKey == <<symbol, candles[Len(candles)].time, direction>>
           signal == [symbol |-> symbol, direction |-> direction,
                      timestamp |-> cyc.now, expiresAt |-> cyc.now + SIGNAL_DURATION]
       IN IF Len(candles) < MIN_CANDLES \/ direction = "none" \/ alertKey \in alerted
          THEN /\ LoopOn(c, alerted, Len(candles),
                         IF Len(candles) < MIN_CANDLES THEN "none" ELSE direction)
               /\ UNCHANGED <<signals, alertLog>>
          ELSE /\ alerted' = alerted \cup {alertKey}
               /\ oldKeys' = oldKeys
               /\ signals' = IF mounted THEN setSignals(signals, signal) ELSE signals
               /\ alertLog' = IF alertKey \in DOMAIN alertLog
                              THEN [alertLog EXCEPT ![alertKey] = Append(@, cyc.now)]
                              ELSE alertLog @@ (alertKey :> <<cyc.now>>)
               /\ cycles' = [cycles EXCEPT ![c] =
                                [cyc EXCEPT !.pc = "delay", !.due = now + PACING_DELAY,
                                            !.got = Len(candles), !.found = direction]]
               /\ slowLeft' = slowLeft
    /\ UNCHANGED <<now, horizon, mounted, enabled, watchlist, scanTimeout,
                   scanInterval, sweepTimer, epoch, editsLeft,
                   args, ret, settingsVars>>

\* scan() of cycle c, from the end of its pacing delay to its next await.
DelayDone(c) ==
    /\ c \in DOMAIN cycles
    /\ cycles[c].pc = "delay"
    /\ cycles[c].due = now
    /\ LoopOn(c, alerted, cycles[c].got, cycles[c].found)
    /\ UNCHANGED <<now, horizon, mounted, enabled, watchlist, signals,
                   scanTimeout, scanInterval, sweepTimer, epoch, editsLeft,
                   alertLog,
                   args, ret, settingsVars>>

(* ------------------------------------------------------------------ *)
(* The expiry sweep                                                    *)
(* ------------------------------------------------------------------ *)
Sweep ==
    /\ now \in sweepTimer
    /\ sweepTimer' = {now + SWEEP_INTERVAL}
    /\ signals' = sweepExpired(signals, now)
    /\ UNCHANGED <<now, horizon, mounted, enabled, watchlist, alerted,
                   oldKeys, cycles, scanTimeout, scanInterval, epoch, editsLeft,
                   alertLog, slowLeft,
                   args, ret, settingsVars>>

(* ------------------------------------------------------------------ *)
(* The owner: watchlist edits, enabling, unmounting                    *)
(* ------------------------------------------------------------------ *)
\* handleToggleWatchlist of the dashboard.
toggle(wl, symbol) ==
    IF symbol \in Range(wl) THEN SelectSeq(wl, LAMBDA s : s # symbol)
    ELSE Append(wl, symbol)

\* The timer effect after a change of [scan, enabled]: the cleanup of the
\* previous run clears both timers, the new run arms them when enabled.
Rearm(en) ==
    /\ scanTimeout' = IF en THEN {now + INITIAL_SCAN_DELAY} ELSE {}
    /\ scanInterval' = IF en THEN {now + SCAN_INTERVAL} ELSE {}
    /\ epoch' = epoch + 1

\* An edit that also drops the signals of symbols no longer on the list.
ToggleWatchlistPruning(symbol) ==
    /\ mounted
    /\ editsLeft > 0
    /\ editsLeft' = editsLeft - 1
    /\ watchlist' = toggle(watchlist, symbol)
    /\ signals' = SelectSeq(signals, LAMBDA s : s.symbol \in Range(watchlist'))
    /\ Rearm(enabled)
    /\ UNCHANGED <<now, horizon, mounted, enabled, alerted,
                   oldKeys, cycles, sweepTimer, alertLog, slowLeft,
                   args, ret, settingsVars>>

ToggleWatchlist(symbol) ==
    /\ mounted
    /\ editsLeft > 0
    /\ editsLeft' = editsLeft - 1
    /\ watchlist' = toggle(watchlist, symbol)
    /\ Rearm(enabled)
    /\ UNCHANGED <<now, horizon, mounted, enabled, signals, alerted,
                   oldKeys, cycles, sweepTimer, alertLog, slowLeft,
                   args, ret, settingsVars>>

SetEnabled(en) ==
    /\ mounted
    /\ en # enabled
    /\ editsLeft > 0
    /\ editsLeft' = editsLeft - 1
    /\ enabled' = en
    /\ Rearm(en)
    /\ UNCHANGED <<now, horizon, mounted, watchlist, signals, alerted,
                   oldKeys, cycles, sweepTimer, alertLog, slowLeft,
                   args, ret, settingsVars>>

Unmount ==
    /\ mounted
    /\ editsLeft > 0
    /\ editsLeft' = editsLeft - 1
    /\ mounted' = FALSE
    /\ scanTimeout' = {}
    /\ scanInterval' = {}
    /\ sweepTimer' = {}
    /\ epoch' = epoch + 1
    /\ UNCHANGED <<now, horizon, enabled, watchlist, signals, alerted,
                   oldKeys, cycles, alertLog, slowLeft,
                   args, ret, settingsVars>>

(* ------------------------------------------------------------------ *)
(* The clock                                                           *)
(* ------------------------------------------------------------------ *)
DueTimes == scanTimeout \cup scanInterval \cup sweepTimer
               \cup {cycles[c].due : c \in DOMAIN cycles}

\* Nothing is due: the clock jumps to the next due time.
Advance ==
    /\ DueTimes # {}
    /\ \A t \in DueTimes : t > now
    /\ now' = CHOOSE t \in DueTimes : \A u \in DueTimes : t <= u
    /\ now' <= horizon
    /\ UNCHANGED <<horizon, mounted, enabled, watchlist, signals, alerted,
                   oldKeys, cycles, scanTimeout, scanInterval, sweepTimer,
                   epoch, editsLeft, alertLog, slowLeft,
                   args, ret, settingsVars>>

(* ------------------------------------------------------------------ *)
(* Specification                                                       *)
(* ------------------------------------------------------------------ *)
Init ==
    /\ \E sc \in Scenarios :
          /\ now = sc.start
          /\ horizon = sc.start + sc.follow
          /\ oldKeys = sc.oldKeys
          /\ editsLeft = sc.edits
          /\ slowLeft = sc.slow
    /\ mounted = TRUE
    /\ enabled = TRUE
    /\ watchlist = <<"BTCUSDT", "ETHUSDT">>
    /\ signals = <<>>
    /\ alerted = {}
    /\ cycles = <<>>
    /\ scanTimeout = {now + INITIAL_SCAN_DELAY}
    /\ scanInterval = {now + SCAN_INTERVAL}
    /\ sweepTimer = {now + SWEEP_INTERVAL}
    /\ epoch = 0
    /\ alertLog = <<>>
    /\ args = [fn |-> "none"]
    /\ ret = <<>>
    /\ settings = [indicators |-> <<>>]
    /\ indicators = <<>>
    /\ uuids = 0
    /\ opsLeft = 0
    /\ lastOp = [op |-> "none"]

Next ==
    \/ ScanTimeout
    \/ ScanInterval
    \/ \E c \in Slots, answer \in Answers : FetchReturn(c, answer)
    \/ \E c \in Slots : DelayDone(c)
    \/ Sweep
    \/ \E symbol \in Symbols : ToggleWatchlist(symbol)
    \/ \E en \in BOOLEAN : SetEnabled(en)
    \/ Unmount
    \/ Advance

Spec == Init /\ [][Next]_vars

(* ------------------------------------------------------------------ *)
(* Calls of the pure functions                                         *)
(* ------------------------------------------------------------------ *)
\* All sequences over S of length at most n.
RECURSIVE SeqsUpTo(_, _)
SeqsUpTo(S, n) ==
    IF n = 0 THEN {<<>>}
    ELSE LET shorter == SeqsUpTo(S, n - 1)
         IN shorter \cup {Append(q, x) : q \in {r \in shorter : Len(r) = n - 1}, x \in S}

\* Start time, in seconds, of the k-th candle of a series.
CandleTime(k) == 900 * k

\* Closing prices for the moving averages: the smallest, the next and the
\* largest significand of one binade, where sums of two need one bit more
\* than a number holds.
Closes == {Num(Pow2(Precision - 1)), Num(Pow2(Precision - 1) + 1), Num(Pow2(Precision) - 1)}

\* The candle series with the given closes, oldest first.
CloseSeries(closes) ==
    [k \in 1..Len(closes) |->
        [time |-> CandleTime(k), open |-> closes[k], high |-> closes[k],
         low |-> closes[k], close |-> closes[k]]]

Periods == 1..MaxPeriod

\* Raw candles for the Heikin-Ashi functions, in price units small enough
\* for every halving and quartering of a series of MaxCandles candles to be
\* exact: a rising and a falling candle without wicks, a rising one with an
\* upper wick, a flat one, and one whose high lies below and whose low lies
\* above its open and close.
PriceUnit == Pow2(MaxCandles + 1)

Raw(o, h, l, c) ==
    [open |-> o * PriceUnit, high |-> h * PriceUnit, low |-> l * PriceUnit,
     close |-> c * PriceUnit]

RawCandles ==
    {Raw(106, 112, 106, 112), Raw(110, 110, 104, 104), Raw(100, 108, 100, 104),
     Raw(104, 104, 104, 104), Raw(108, 104, 112, 108)}

\* The candle series with the given prices, oldest first.
RawSeries(prices) ==
    [k \in 1..Len(prices) |->
        [time |-> CandleTime(k), open |-> prices[k].open, high |-> prices[k].high,
         low |-> prices[k].low, close |-> prices[k].close]]

\* Candles for the Stochastic: one without range, one closing at its high
\* and one closing at its low; low <= close <= high in each.
Bar(h, l, c) == [open |-> Num(c), high |-> Num(h), low |-> Num(l), close |-> Num(c)]

Bars == {Bar(5, 5, 5), Bar(8, 2, 8), Bar(7, 3, 3)}

\* Band widths of the Bollinger Bands: the default and a fractional one.
StdDevs == {Num(2), over(Num(3), Num(2))}

\* Thresholds of the ATR% colours: the defaults 0.5, 1.5, 3, a second
\* increasing triple, and a decreasing one.
Half == over(Num(1), Num(2))

Thresholds ==
    {<<Half, over(Num(3), Num(2)), Num(3)>>, <<Num(1), Num(2), Num(4)>>,
     <<Num(3), over(Num(3), Num(2)), Half>>}

\* The numbers next below and next above t.
Below(t) == over(times(t, Num(Pow2(Precision) - 1)), Num(Pow2(Precision)))

Above(t) == over(times(t, Num(Pow2(Precision - 1) + 1)), Num(Pow2(Precision - 1)))

AtrValues(th) ==
    {Zero, Num(10)} \cup {th[k] : k \in 1..3} \cup {Below(th[k]) : k \in 1..3}
        \cup {Above(th[k]) : k \in 1..3}

\* The functions that are called.
Functions ==
    {"calculateSMA", "calculateEMA", "calculateMACD", "convertToHeikinAshi",
     "detectHAReversal", "calculateRSI", "calculateBollingerBands",
     "calculateStochastic", "getColor"}

\* The calls of function fn that are made: the function and its arguments.
CallsOf(fn) ==
    CASE fn \in {"calculateSMA", "calculateEMA", "calculateRSI"} ->
            {[fn |-> fn, candles |-> CloseSeries(cl), period |-> p] :
                cl \in SeqsUpTo(Closes, MaxLen), p \in Periods}
      [] fn = "calculateMACD" ->
            {[fn |-> fn, candles |-> CloseSeries(cl), fastPeriod |-> f,
              slowPeriod |-> sl, signalPeriod |-> sg] :
                cl \in SeqsUpTo(Closes, MaxLen), f \in Periods, sl \in Periods,
                sg \in Periods}
      [] fn \in {"convertToHeikinAshi", "detectHAReversal"} ->
            {[fn |-> fn, candles |-> RawSeries(px)] :
                px \in SeqsUpTo(RawCandles, MaxCandles)}
      [] fn = "calculateBollingerBands" ->
            {[fn |-> fn, candles |-> CloseSeries(cl), period |-> p, stdDev |-> sd] :
                cl \in SeqsUpTo(Closes, MaxLen), p \in Periods, sd \in StdDevs}
      [] fn = "calculateStochastic" ->
            {[fn |-> fn, candles |-> RawSeries(px), kPeriod |-> k, dPeriod |-> d,
              smooth |-> sm] :
                px \in SeqsUpTo(Bars, MaxLen), k \in Periods, d \in Periods,
                sm \in Periods}
      [] fn = "getColor" ->
            UNION {{[fn |-> fn, atrPercent |-> v, thresholds |-> th] :
                        v \in AtrValues(th)} : th \in Thresholds}

CallSMA ==
    /\ args.fn = "calculateSMA"
    /\ ret = <<>>
    /\ ret' = <<calculateSMA(args.candles, args.period)>>
    /\ UNCHANGED <<args, hookVars, settingsVars>>

CallEMA ==
    /\ args.fn = "calculateEMA"
    /\ ret = <<>>
    /\ ret' = <<calculateEMA(args.candles, args.period)>>
    /\ UNCHANGED <<args, hookVars, settingsVars>>

CallMACD ==
    /\ args.fn = "calculateMACD"
    /\ ret = <<>>
    /\ ret' = <<calculateMACD(args.candles, args.fastPeriod, args.slowPeriod,
                              args.signalPeriod)>>
    /\ UNCHANGED <<args, hookVars, settingsVars>>

CallHeikinAshi ==
    /\ args.fn = "convertToHeikinAshi"
    /\ ret = <<>>
    /\ ret' = <<convertToHeikinAshi(args.candles)>>
    /\ UNCHANGED <<args, hookVars, settingsVars>>

CallDetect ==
    /\ args.fn = "detectHAReversal"
    /\ ret = <<>>
    /\ ret' = <<detectHAReversal(args.candles)>>
    /\ UNCHANGED <<args, hookVars, settingsVars>>

CallGetColor ==
    /\ args.fn = "getColor"
    /\ ret = <<>>
    /\ ret' = <<getColor(args.atrPercent, args.thresholds[1], args.thresholds[2],
                         args.thresholds[3])>>
    /\ UNCHANGED <<args, hookVars, settingsVars>>

CallRSI ==
    /\ args.fn = "calculateRSI"
    /\ ret = <<>>
    /\ ret' = <<calculateRSI(args.candles, args.period)>>
    /\ UNCHANGED <<args, hookVars, settingsVars>>

CallBollingerBands ==
    /\ args.fn = "calculateBollingerBands"
    /\ ret = <<>>
    /\ ret' = <<calculateBollingerBands(args.candles, args.period, args.stdDev)>>
    /\ UNCHANGED <<args, hookVars, settingsVars>>

CallStochastic ==
    /\ args.fn = "calculateStochastic"
    /\ ret = <<>>
    /\ ret' = <<calculateStochastic(args.candles, args.kPeriod, args.dPeriod,
                                    args.smooth)>>
    /\ UNCHANGED <<args, hookVars, settingsVars>>

\* No hook is mounted while the functions are called on their own.
InitCalls ==
    /\ \E fn \in Functions : args \in CallsOf(fn)
    /\ ret = <<>>
    /\ now = 0
    /\ horizon = 0
    /\ mounted = FALSE
    /\ enabled = FALSE
    /\ watchlist = <<>>
    /\ signals = <<>>
    /\ alerted = {}
    /\ oldKeys = 0
    /\ cycles = <<>>
    /\ scanTimeout = {}
    /\ scanInterval = {}
    /\ sweepTimer = {}
    /\ epoch = 0
    /\ editsLeft = 0
    /\ slowLeft = 0
    /\ alertLog = <<>>
    /\ settings = [indicators |-> <<>>]
    /\ indicators = <<>>
    /\ uuids = 0
    /\ opsLeft = 0
    /\ lastOp = [op |-> "none"]

NextCalls ==
    \/ CallSMA
    \/ CallEMA
    \/ CallMACD
    \/ CallHeikinAshi
    \/ CallDetect
    \/ CallGetColor
    \/ CallRSI
    \/ CallBollingerBands
    \/ CallStochastic

SpecCalls == InitCalls /\ [][NextCalls]_vars

(* ------------------------------------------------------------------ *)
(* Indicator settings UI                                               *)
(* ------------------------------------------------------------------ *)
\* The handlers of IndicatorSettings are closures of one render: they read
\* the `indicators` prop of that render and hand a new list to the owner,
\* whose next render passes it down again.  An indicator is a record with
\* the fields id, type and enabled and whatever fields an update has set.
MAX_INDICATOR_INSTANCES == 3

\* Clicks that are followed.
MaxOps == 3

IndicatorTypes == {"sma", "ema", "bb", "rsi", "macd", "stochastic", "atr", "volume"}

\* DEFAULT_INDICATOR_CONFIGS[type](), with the id that randomUUID returns.
DEFAULT_INDICATOR_CONFIGS(type, id) == [id |-> id, type |-> type, enabled |-> TRUE]

\* { ...indicator, ...updates }
Spread(indicator, updates) ==
    [f \in DOMAIN indicator \cup DOMAIN updates |->
        IF f \in DOMAIN updates THEN updates[f] ELSE indicator[f]]

\* The objects that the controls of an indicator's card pass to onUpdate.
Updates == {[period |-> 5], [color |-> "#FF0000"]}

getIndicatorCount(type) == Len(SelectSeq(indicators, LAMBDA i : i.type = type))

\* A test that lets a kind at the limit through.
canAddIndicatorAtLimit(type) == getIndicatorCount(type) <= MAX_INDICATOR_INSTANCES

canAddIndicator(type) == getIndicatorCount(type) < MAX_INDICATOR_INSTANCES

handleIndicatorsChange(newIndicators) ==
    settings' = [settings EXCEPT !.indicators = newIndicators]

\* One click: the handler `op` runs with argument `arg`.
Click(op, arg) ==
    /\ opsLeft > 0
    /\ opsLeft' = opsLeft - 1
    /\ lastOp' = [op |-> op, arg |-> arg]
    /\ UNCHANGED <<indicators, args, ret, hookVars>>

addIndicator(type) ==
    /\ Click("addIndicator", type)
    /\ IF ~canAddIndicator(type) THEN UNCHANGED <<settings, uuids>>
       ELSE /\ uuids' = uuids + 1
            /\ handleIndicatorsChange(
                   Append(indicators, DEFAULT_INDICATOR_CONFIGS(type, uuids + 1)))

removeIndicator(id) ==
    /\ Click("removeIndicator", id)
    /\ handleIndicatorsChange(SelectSeq(indicators, LAMBDA i : i.id # id))
    /\ UNCHANGED uuids

\* indicators.map(i => (i.id === id ? { ...i, ...updates } : i))
MapUpdate(id, updates) ==
    [n \in 1..Len(indicators) |->
        IF indicators[n].id = id THEN Spread(indicators[n], updates) ELSE indicators[n]]

updateIndicator(id, updates) ==
    /\ Click("updateIndicator", id)
    /\ handleIndicatorsChange(MapUpdate(id, updates))
    /\ UNCHANGED uuids

toggleEnabled(id) ==
    /\ Click("toggleEnabled", id)
    /\ IF \E n \in 1..Len(indicators) : indicators[n].id = id
       THEN LET indicator ==
                    indicators[CHOOSE n \in 1..Len(indicators) : indicators[n].id = id]
            IN handleIndicatorsChange(MapUpdate(id, [enabled |-> ~indicator.enabled]))
       ELSE UNCHANGED settings
    /\ UNCHANGED uuids

\* The ids of the cards on screen.
Ids == {indicators[n].id : n \in 1..Len(indicators)}

Add == \E type \in IndicatorTypes : addIndicator(type)

Remove == \E id \in Ids : removeIndicator(id)

Update == \E id \in Ids, updates \in Updates : updateIndicator(id, updates)

Toggle == \E id \in Ids : toggleEnabled(id)

\* The owner renders with its new settings.
Render ==
    /\ indicators # settings.indicators
    /\ indicators' = settings.indicators
    /\ lastOp' = [op |-> "render"]
    /\ UNCHANGED <<settings, uuids, opsLeft, args, ret, hookVars>>

\* The list with one default indicator of each of the given kinds, in order.
Configs(types) == [n \in 1..Len(types) |-> DEFAULT_INDICATOR_CONFIGS(types[n], n)]

\* Lists the UI may start from: none, one kind at its limit, and kinds at,
\* one below and two below the limit.
InitialTypes ==
    {<<>>, <<"sma", "sma", "sma">>, <<"sma", "ema", "sma", "rsi", "ema", "sma">>}

InitSettings ==
    /\ \E types \in InitialTypes :
          /\ settings = [indicators |-> Configs(types)]
          /\ indicators = Configs(types)
          /\ uuids = Len(types)
    /\ opsLeft = MaxOps
    /\ lastOp = [op |-> "none"]
    /\ args = [fn |-> "none"]
    /\ ret = <<>>
    /\ now = 0
    /\ horizon = 0
    /\ mounted = FALSE
    /\ enabled = FALSE
    /\ watchlist = <<>>
    /\ signals = <<>>
    /\ alerted = {}
    /\ oldKeys = 0
    /\ cycles = <<>>
    /\ scanTimeout = {}
    /\ scanInterval = {}
    /\ sweepTimer = {}
    /\ epoch = 0
    /\ editsLeft = 0
    /\ slowLeft = 0
    /\ alertLog = <<>>

NextSettings ==
    \/ Add
    \/ Remove
    \/ Update
    \/ Toggle
    \/ Render

SpecSettings == InitSettings /\ [][NextSettings]_vars

(* ------------------------------------------------------------------ *)
(* Claims                                                              *)
(* ------------------------------------------------------------------ *)
\* The dedupe set as the code sees it: its keys of the modelled periods and
\* the number of its older keys.
DedupeUnchanged == alerted' = alerted /\ oldKeys' = oldKeys

\* C1: a dedupe key is not alerted again while the signal of its previous
\* alert is within its 10-minute lifetime: the timestamps of two alerts of one
\* key lie at least SIGNAL_DURATION apart, so two consecutive cycles of one
\* pre-close window that detect the same key produce one alert, and the
\* size-based clearing never lets a recently alerted candle alert again.
C1_NoRecentRealert ==
    \A k \in DOMAIN alertLog :
        \A i, j \in DOMAIN alertLog[k] :
            i < j => alertLog[k][j] - alertLog[k][i] >= SIGNAL_DURATION

\* C2: over any sequence of scan cycles the alert of a dedupe key
\* (symbol, lastCandleTime, direction) is emitted at most once.
C2_AlertAtMostOnce == \A k \in DOMAIN alertLog : Len(alertLog[k]) <= 1

\* C3: a scan tick at time now starts a cycle and issues the fetch of the
\* first symbol if and only if the scanner is enabled, the watchlist is not
\* empty and 900000 - (now mod 900000) <= 60000; every other tick issues no
\* fetch; and no tick changes the signal set or the dedupe set.
C3_PreCloseGating ==
    [][(ScanTimeout \/ ScanInterval) =>
          /\ IF enabled /\ Len(watchlist) > 0 /\ 900000 - (now % 900000) <= 60000
             THEN \E c \in DOMAIN cycles' \ DOMAIN cycles :
                     /\ cycles'[c].now = now
                     /\ cycles'[c].pc = "fetch"
                     /\ cycles'[c].fetched = <<watchlist[1]>>
                     /\ \A d \in DOMAIN cycles : cycles'[d] = cycles[d]
             ELSE cycles' = cycles
          /\ signals' = signals
          /\ DedupeUnchanged]_vars

\* C3 witness: a cycle has just been started, and its first fetch issued, by a
\* tick exactly 60 s before the close.
C3_Witness ==
    \E c \in DOMAIN cycles :
        /\ cycles[c].now = now
        /\ cycles[c].pc = "fetch"
        /\ 900000 - (now % 900000) = 60000

\* C4: a signal created with timestamp t carries expiresAt = t + 600000, stays
\* in the signal set until it is replaced or has expired, is what
\* getSignal(symbol) returns at every time before t + 600000, and is not
\* returned from t + 600000 on, swept or not.
C4_SignalExpiry ==
    /\ [](\A i \in DOMAIN signals :
            LET sg == signals[i] IN
            /\ sg.expiresAt = sg.timestamp + 600000
            /\ now < sg.timestamp + 600000 => getSignal(sg.symbol) = {sg}
            /\ now >= sg.timestamp + 600000 => getSignal(sg.symbol) = {})
    /\ [][\A sg \in Range(signals) :
            now' < sg.timestamp + 600000 =>
                \E sg2 \in Range(signals') : sg2.symbol = sg.symbol]_vars

\* C4 witness: a signal has expired and is still in the signal set (the sweep
\* has not run since), and getSignal does not return it.
C4_Witness ==
    \E i \in DOMAIN signals :
        /\ signals[i].expiresAt <= now
        /\ getSignal(signals[i].symbol) = {}

\* The signals of the symbols other than `symbol`, in order.
Others(sigs, symbol) == SelectSeq(sigs, LAMBDA s : s.symbol # symbol)

\* C5: the signal set never holds two signals of one symbol, and a step that
\* creates a signal (it records a new dedupe key while the hook is mounted)
\* leaves exactly one signal of that symbol, the new one, and the signals of
\* all other symbols as they were.
C5_OneSignalPerSymbol ==
    /\ [](\A i, j \in DOMAIN signals :
            signals[i].symbol = signals[j].symbol => i = j)
    /\ [][\A k \in alerted' \ alerted :
            mounted =>
                /\ Others(signals', k[1]) = Others(signals, k[1])
                /\ Len(signals') = Len(Others(signals, k[1])) + 1
                /\ signals'[Len(signals')].symbol = k[1]
                /\ signals'[Len(signals')].direction = k[3]]_vars

\* C5 witness: a symbol's signal was replaced: its live signal is not the one
\* of an alert emitted for the symbol while the hook was mounted.
C5_Witness ==
    /\ mounted
    /\ \E i \in DOMAIN signals, k \in DOMAIN alertLog :
          /\ k[1] = signals[i].symbol
          /\ \E n \in DOMAIN alertLog[k] : alertLog[k][n] # signals[i].timestamp

\* C6: at most one scan cycle is in flight at any moment.
C6_NoOverlap == Cardinality(DOMAIN cycles) <= 1

\* C7: a cycle started before the timers were last torn down does no further
\* work: it issues no fetch and produces no dedupe key, signal or alert; the
\* only step it may take is to end.
C7_Cancellation ==
    [][\A c \in DOMAIN cycles :
          cycles[c].epoch # epoch =>
              /\ c \in DOMAIN cycles' => cycles'[c] = cycles[c]
              /\ c \notin DOMAIN cycles' => (alertLog' = alertLog /\ signals' = signals)]_vars

\* C8: whenever a symbol's live signal is replaced, the timestamp and the
\* expiresAt of the replacing signal are not earlier than those of the signal
\* it replaces.
C8_InOrder ==
    [][\A a \in Range(signals), b \in Range(signals') :
          a.symbol = b.symbol =>
              b.timestamp >= a.timestamp /\ b.expiresAt >= a.expiresAt]_vars

\* C9: after the fetch of a symbol returns, the cycle waits out the pacing
\* delay before issuing the next symbol's fetch, whatever the fetch returned.
C9_Pacing ==
    [][\A c \in DOMAIN cycles \cap DOMAIN cycles' :
          cycles[c].pc = "fetch" /\ cycles'[c] # cycles[c] =>
              cycles'[c].pc = "delay"]_vars

\* The step of cycle c when its fetch fails or returns fewer than 5 candles.
FailedFetch(c) == FetchReturn(c, "fail") \/ FetchReturn(c, "short")

\* After a failed fetch cycle c goes on with the next symbol, without fetching
\* the failed one again, or ends when there is none.
SkippedNoRetry(c) ==
    IF cycles[c].i < Len(cycles[c].wl)
    THEN /\ c \in DOMAIN cycles'
         /\ cycles'[c].pc = "fetch"
         /\ cycles'[c].i = cycles[c].i + 1
         /\ cycles'[c].fetched = Append(cycles[c].fetched, cycles[c].wl[cycles[c].i + 1])
    ELSE c \notin DOMAIN cycles'

FetchesOwnList ==
    /\ \A c \in DOMAIN cycles \cap DOMAIN cycles' :
          /\ cycles'[c].wl = cycles[c].wl
          /\ \/ cycles'[c].fetched = cycles[c].fetched
             \/ /\ cycles[c].due = now
                /\ Len(cycles[c].fetched) < Len(cycles[c].wl)
                /\ cycles'[c].fetched =
                      Append(cycles[c].fetched,
                             cycles[c].wl[Len(cycles[c].fetched) + 1])
    /\ \A d \in DOMAIN cycles \ DOMAIN cycles' :
          cycles[d].fetched = cycles[d].wl
    /\ \A e \in DOMAIN cycles' \ DOMAIN cycles :
          cycles'[e].wl = watchlist /\ cycles'[e].fetched = <<watchlist[1]>>

\* C11: every cycle in flight has fetched, in watchlist order and each once,
\* the first symbols of the watchlist it captured when it started (a list
\* without repetitions), one fetch at a time, and ends only after the last;
\* no watchlist edit changes the list of a cycle in flight.
C11_SnapshotOrder ==
    /\ [](\A c \in DOMAIN cycles :
            /\ cycles[c].fetched = SubSeq(cycles[c].wl, 1, cycles[c].i)
            /\ cycles[c].i \in 1..Len(cycles[c].wl)
            /\ Cardinality(Range(cycles[c].wl)) = Len(cycles[c].wl))
    /\ [][FetchesOwnList]_vars

\* C11 witness: a cycle that captured both symbols is fetching the second one,
\* a fetch it issued after the owner had removed that symbol from the
\* watchlist (the edit re-armed the first-scan timer no later than the fetch
\* went out).
C11_Witness ==
    \E c \in DOMAIN cycles :
        /\ cycles[c].wl = <<"BTCUSDT", "ETHUSDT">>
        /\ cycles[c].fetched = <<"BTCUSDT", "ETHUSDT">>
        /\ cycles[c].pc = "fetch"
        /\ watchlist = <<"BTCUSDT">>
        /\ \E t \in scanTimeout :
              cycles[c].due - Latency.slow >= t - INITIAL_SCAN_DELAY

\* A call of fn has returned.
Returned(fn) == args.fn = fn /\ ret # <<>>

\* The colour of a Heikin-Ashi candle.
Colour(c) ==
    IF c.close < c.open THEN "red" ELSE IF c.close > c.open THEN "green" ELSE "doji"

\* The colours of the last four candles of a series of at least four.
LastFour(ha) == [k \in 1..4 |-> Colour(ha[Len(ha) - 4 + k])]

ReplaceLast(candles, x) ==
    [candles EXCEPT ![Len(candles)] =
        [time |-> @.time, open |-> x.open, high |-> x.high, low |-> x.low,
         close |-> x.close]]

\* C13: the final candle of the input, the one still forming when the scanner
\* calls the detector, takes no part in the classification: whatever its
\* prices, the detector returns the same.
C13_IgnoresFormingCandle ==
    Returned("detectHAReversal") /\ Len(args.candles) >= 5 =>
        \A x \in RawCandles : detectHAReversal(ReplaceLast(args.candles, x)) = ret[1]

\* C14: for every period p >= 1, calculateEMA returns an empty sequence,
\* without raising, on fewer than p candles, and exactly one point on p.
C14_EMAGuards ==
    Returned("calculateEMA") =>
        /\ ~ret[1].threw
        /\ Len(args.candles) < args.period => ret[1].points = <<>>
        /\ Len(args.candles) = args.period => Len(ret[1].points) = 1

\* Length of the MACD line of n candles: the slow EMA's points that have a
\* fast EMA point at the same offset.
AlignedLength(n, fast, slow) ==
    Cardinality({i \in 0..(n - slow) : i + slow - fast >= 0 /\ i + slow - fast <= n - fast})

\* C15: for all positive fast, slow and signal periods and every series,
\* calculateMACD does not raise; it returns an empty sequence when the series
\* is shorter than slow + signal or the aligned MACD line is shorter than
\* signal, and points otherwise.
C15_MACDNeverFaults ==
    Returned("calculateMACD") =>
        LET n == Len(args.candles) IN
        /\ ~ret[1].threw
        /\ ret[1].points = <<>> <=>
              \/ n < args.slowPeriod + args.signalPeriod
              \/ AlignedLength(n, args.fastPeriod, args.slowPeriod) < args.signalPeriod

\* The sum of the numbers q[1], ..., q[n], accumulated in that order.
RECURSIVE SumInOrder(_, _)
SumInOrder(q, n) == IF n = 0 THEN Zero ELSE plus(SumInOrder(q, n - 1), q[n])

\* v is the arithmetic mean of the closes of candles from .. from + p - 1, the
\* sum being accumulated in some order.
IsMeanOfCloses(v, candles, from, p) ==
    \E order \in Permutations(1..p) :
        v = over(SumInOrder([k \in 1..p |-> candles[from + order[k] - 1].close], p), Num(p))

\* C16: calculateSMA(candles, p), p >= 1, returns no point on fewer than p
\* candles and length - p + 1 points otherwise (one on p candles), the i-th
\* being the arithmetic mean of the closes of candles i .. i+p-1, stamped with
\* the time of candle i+p-1.
C16_SMAWindowMean ==
    Returned("calculateSMA") =>
        LET n == Len(args.candles)
            p == args.period
        IN /\ Len(ret[1]) = IF n < p THEN 0 ELSE n - p + 1
           /\ \A i \in DOMAIN ret[1] :
                 /\ ret[1][i].time = args.candles[i + p - 1].time
                 /\ IsMeanOfCloses(ret[1][i].value, args.candles, i, p)

\* C16 witness: an SMA of period 3 has returned two points of different
\* values.
C16_Witness ==
    /\ Returned("calculateSMA")
    /\ args.period = 3
    /\ Len(ret[1]) = 2
    /\ ret[1][1].value # ret[1][2].value

\* Each EMA point after the first follows
\* ema_i = (close_i - ema_{i-1}) * 2/(p+1) + ema_{i-1}.
FollowsRecurrence(points, candles, p) ==
    \A k \in 2..Len(points) :
        points[k].value =
            plus(times(minus(candles[p + k - 1].close, points[k - 1].value),
                       over(Num(2), Num(p + 1))),
                 points[k - 1].value)

\* C17 as stated: on at least p candles the first EMA point has the time
\* (that of candle p-1 of the source) and the value of the first SMA point,
\* and each later point follows the recurrence.
C17_SharedSeed ==
    Returned("calculateEMA") /\ Len(args.candles) >= args.period =>
        LET sma == calculateSMA(args.candles, args.period)
            ema == ret[1].points
        IN /\ ema[1].time = args.candles[args.period].time
           /\ ema[1].time = sma[1].time
           /\ ema[1].value = sma[1].value
           /\ FollowsRecurrence(ema, args.candles, args.period)

\* C17 as amended: the first EMA point has the time of the first SMA point,
\* and its value is, like that one's, the mean of the first p closes; the two
\* values are the same number for p <= 2, and for larger p they can differ in
\* the rounding, the EMA adding the closes oldest first and the SMA newest
\* first.  Each later point follows the recurrence.
C17_SharedSeedAmended ==
    Returned("calculateEMA") /\ Len(args.candles) >= args.period =>
        LET sma == calculateSMA(args.candles, args.period)
            ema == ret[1].points
        IN /\ ema[1].time = args.candles[args.period].time
           /\ ema[1].time = sma[1].time
           /\ IsMeanOfCloses(ema[1].value, args.candles, 1, args.period)
           /\ IsMeanOfCloses(sma[1].value, args.candles, 1, args.period)
           /\ args.period <= 2 => ema[1].value = sma[1].value
           /\ FollowsRecurrence(ema, args.candles, args.period)

\* C17 witness: an EMA of period 3 has returned more than one point, and its
\* first value is not that of the first SMA point.
C17_Witness ==
    /\ Returned("calculateEMA")
    /\ args.period = 3
    /\ Len(args.candles) > 3
    /\ ret[1].points[1].value # calculateSMA(args.candles, 3)[1].value

\* C18: every candle that convertToHeikinAshi outputs has
\* low <= min(open, close) <= max(open, close) <= high, whatever the input,
\* raw highs and lows that do not bracket the open and close included.
C18_HABracket ==
    Returned("convertToHeikinAshi") =>
        /\ Len(ret[1]) = Len(args.candles)
        /\ \A k \in DOMAIN ret[1] :
              LET c == ret[1][k] IN
              /\ c.low <= c.open /\ c.low <= c.close
              /\ c.open <= c.high /\ c.close <= c.high

\* C18 witness: the transform has returned for a series of several candles,
\* the last with its raw high below its open and its raw low above it.
C18_Witness ==
    /\ Returned("convertToHeikinAshi")
    /\ Len(args.candles) > 1
    /\ LET raw == args.candles[Len(args.candles)]
       IN raw.high < raw.open /\ raw.low > raw.open

DefaultThresholds == <<Half, over(Num(3), Num(2)), Num(3)>>

\* C20: the colour is green below the low threshold, else yellow below the
\* medium one, else orange below the high one, else red, the first match
\* winning; a value equal to a threshold is in the bucket above it.  With
\* 0.5, 1.5, 3: the number next below 0.5 is green, 0.5 and the number next
\* below 1.5 are yellow, 1.5 and the number next below 3 are orange, 3 and 10
\* are red.
C20_ColourSteps ==
    Returned("getColor") =>
        LET v == args.atrPercent
            th == args.thresholds
            least(k) == IF v.e <= th[k].e THEN v.e ELSE th[k].e
            under(k) == v.m * Pow2(v.e - least(k)) < th[k].m * Pow2(th[k].e - least(k))
        IN /\ ret[1] = "#22C55E" <=> under(1)
           /\ ret[1] = "#EAB308" <=> ~under(1) /\ under(2)
           /\ ret[1] = "#F97316" <=> ~under(1) /\ ~under(2) /\ under(3)
           /\ ret[1] = "#EF4444" <=> ~under(1) /\ ~under(2) /\ ~under(3)
           /\ th = DefaultThresholds =>
                 /\ v = Below(th[1]) => ret[1] = "#22C55E"
                 /\ v \in {th[1], Below(th[2])} => ret[1] = "#EAB308"
                 /\ v \in {th[2], Below(th[3])} => ret[1] = "#F97316"
                 /\ v \in {th[3], Num(10)} => ret[1] = "#EF4444"

\* C20 witness: with the thresholds 0.5, 1.5, 3 the colour of 1.5 has come
\* back orange.
C20_Witness ==
    /\ Returned("getColor")
    /\ args.thresholds = DefaultThresholds
    /\ args.atrPercent = args.thresholds[2]
    /\ ret[1] = "#F97316"

\* The index, counted from 0, of the candle that carries time t.
CandleAt(candles, t) == CHOOSE i \in 0..(Len(candles) - 1) : candles[i + 1].time = t

WellFormed(candles) ==
    \A n \in 1..Len(candles) :
        /\ ~less(candles[n].close, candles[n].low)
        /\ ~less(candles[n].high, candles[n].close)

\* The greatest high of the kPeriod candles that end at index i equals their
\* least low.
NoRange(candles, kPeriod, i) ==
    LET window == (i - kPeriod + 1)..i
    IN \E a \in window, b \in window :
        /\ \A c \in window : ~less(candles[a + 1].high, candles[c + 1].high)
        /\ \A c \in window : ~less(candles[c + 1].low, candles[b + 1].low)
        /\ candles[a + 1].high = candles[b + 1].low

Percent(v) == ~less(v, Zero) /\ ~less(Num(100), v)

\* C21: for a well-formed candle series every %K returned by
\* calculateStochastic lies in [0, 100], and the %K of a point is exactly 50
\* when the window of kPeriod candles ending at the point's candle has
\* highestHigh = lowestLow.
C21_StochasticRange ==
    (Returned("calculateStochastic") /\ WellFormed(args.candles)) =>
        \A n \in 1..Len(ret[1]) :
            /\ Percent(ret[1][n].k)
            /\ NoRange(args.candles, args.kPeriod, CandleAt(args.candles, ret[1][n].time))
                => ret[1][n].k = Num(50)

\* C21, amended: every %K returned lies in [0, 100]; the %K of a point is the
\* mean of `smooth` raw values, and it is exactly 50 when each of the
\* `smooth` windows that end at the point's candle and at the candles before
\* it has highestHigh = lowestLow.
C21_StochasticRangeAmended ==
    (Returned("calculateStochastic") /\ WellFormed(args.candles)) =>
        \A n \in 1..Len(ret[1]) :
            /\ Percent(ret[1][n].k)
            /\ (\A j \in 0..(args.smooth - 1) :
                    NoRange(args.candles, args.kPeriod,
                            CandleAt(args.candles, ret[1][n].time) - j))
                => ret[1][n].k = Num(50)

\* A smoothed call returned a point over windows without range, at 50, and a
\* point away from 50 whose own window has no range.
C21_Witness ==
    /\ Returned("calculateStochastic")
    /\ WellFormed(args.candles)
    /\ args.smooth > 1
    /\ \E n \in 1..Len(ret[1]) :
        /\ \A j \in 0..(args.smooth - 1) :
              NoRange(args.candles, args.kPeriod,
                      CandleAt(args.candles, ret[1][n].time) - j)
        /\ ret[1][n].k = Num(50)
    /\ \E n \in 1..Len(ret[1]) :
        /\ NoRange(args.candles, args.kPeriod, CandleAt(args.candles, ret[1][n].time))
        /\ ret[1][n].k # Num(50)
    /\ \E n \in 1..Len(ret[1]) : ret[1][n].k \in {Zero, Num(100)}

\* No close up to the candle at index i lies below the close before it, so
\* that every loss is 0 and avgLoss is 0 at index i.
NoLossUpTo(candles, i) ==
    \A n \in 1..i : ~less(candles[n + 1].close, candles[n].close)

\* C22: calculateRSI outputs exactly 100 at the points where avgLoss is 0,
\* and at every other point a value that is neither exactly 0 nor exactly
\* 100.
C22_RSIOpenInterval ==
    Returned("calculateRSI") =>
        \A n \in 1..Len(ret[1]) :
            IF NoLossUpTo(args.candles, CandleAt(args.candles, ret[1][n].time))
            THEN ret[1][n].value = Num(100)
            ELSE ret[1][n].value \notin {Zero, Num(100)}

\* C23: for the same candles and period calculateBollingerBands and
\* calculateSMA return equally many points with the same times, and each
\* middle value is the SMA value at the same index.
C23_MiddleIsSMA ==
    Returned("calculateBollingerBands") =>
        LET sma == calculateSMA(args.candles, args.period)
        IN /\ Len(ret[1]) = Len(sma)
           /\ \A n \in 1..Len(ret[1]) :
                /\ ret[1][n].time = sma[n].time
                /\ ret[1][n].middle = sma[n].value

\* Bands over windows of three candles, at more than one index, with a
\* width.
C23_Witness ==
    /\ Returned("calculateBollingerBands")
    /\ args.period = 3
    /\ Len(ret[1]) > 1
    /\ \E n \in 1..Len(ret[1]) : less(ret[1][n].lower, ret[1][n].middle)
    /\ \E n \in 1..Len(ret[1]) : ret[1][n].middle # args.candles[n + 2].close

\* The point of an indicator series that carries time t.
PointAt(points, t) == points[CHOOSE n \in 1..Len(points) : points[n].time = t]

\* C27: for fast <= slow every point of calculateMACD has macd = fastEMA -
\* slowEMA, both taken at the candle whose time the point carries, and
\* histogram = macd - signal; the points belong to successive candles, the
\* first to the candle at index slow - 1 + signal - 1 and the last to the
\* last candle.
C27_MACDAlignment ==
    (Returned("calculateMACD") /\ args.fastPeriod <= args.slowPeriod) =>
        LET points == ret[1].points
            first == args.slowPeriod - 1 + args.signalPeriod - 1
            fastEMA == calculateEMA(args.candles, args.fastPeriod).points
            slowEMA == calculateEMA(args.candles, args.slowPeriod).points
        IN /\ ~ret[1].threw
           /\ points # <<>> => Len(points) = Len(args.candles) - first
           /\ \A n \in 1..Len(points) :
                /\ points[n].time = args.candles[first + n].time
                /\ points[n].macd = minus(PointAt(fastEMA, points[n].time).value,
                                          PointAt(slowEMA, points[n].time).value)
                /\ points[n].histogram = minus(points[n].macd, points[n].signal)

\* A MACD with fast < slow returned more than one point, one of them with a
\* histogram.
C27_Witness ==
    /\ Returned("calculateMACD")
    /\ args.fastPeriod < args.slowPeriod
    /\ args.signalPeriod > 1
    /\ Len(ret[1].points) > 1
    /\ \E n \in 1..Len(ret[1].points) : ret[1].points[n].histogram # Zero

\* C28: the k-th point returned by calculateStochastic, k counted from 0,
\* carries the time of the candle at index kPeriod - 1 + smooth - 1 + k; a
\* series of exactly kPeriod + dPeriod + smooth - 2 candles yields one point
\* and a shorter one none.
C28_StochasticTimes ==
    Returned("calculateStochastic") =>
        LET needed == args.kPeriod + args.dPeriod + args.smooth - 2
        IN /\ \A n \in 1..Len(ret[1]) :
                ret[1][n].time =
                    args.candles[args.kPeriod - 1 + args.smooth - 1 + (n - 1) + 1].time
           /\ Len(args.candles) = needed => Len(ret[1]) = 1
           /\ Len(args.candles) < needed => ret[1] = <<>>

\* C28, amended: the k-th point returned, k counted from 0, carries the time
\* of the candle at index kPeriod - 1 + smooth - 1 + dPeriod - 1 + k, the
\* newest candle that its %D covers; a series of exactly kPeriod + dPeriod +
\* smooth - 2 candles yields one point, that of its last candle, and a
\* shorter one none.
C28_StochasticTimesAmended ==
    Returned("calculateStochastic") =>
        LET needed == args.kPeriod + args.dPeriod + args.smooth - 2
        IN /\ \A n \in 1..Len(ret[1]) :
                ret[1][n].time = args.candles[needed - 1 + (n - 1) + 1].time
           /\ Len(args.candles) >= needed => Len(ret[1]) = Len(args.candles) - needed + 1
           /\ Len(args.candles) < needed => ret[1] = <<>>

\* A call with a %D over more than one value returned more than one point.
C28_Witness ==
    /\ Returned("calculateStochastic")
    /\ args.dPeriod > 1
    /\ args.smooth > 1
    /\ Len(ret[1]) > 1

\* Exactly as many candles as needed, with every period above 1: one point.
C28_WitnessShortest ==
    /\ Returned("calculateStochastic")
    /\ args.kPeriod > 1 /\ args.dPeriod > 1
    /\ Len(args.candles) = args.kPeriod + args.dPeriod + args.smooth - 2
    /\ Len(ret[1]) = 1

\* The number of indicators of a kind in a list.
InstancesOf(list, type) == Cardinality({n \in 1..Len(list) : list[n].type = type})

AtMostThree(list) ==
    \A n \in 1..Len(list) :
        /\ list[n].type \in IndicatorTypes
        /\ InstancesOf(list, list[n].type) <= 3

\* C24: started from a list with at most 3 instances of each kind, the
\* indicator list of the settings, and the one on screen, hold at most 3
\* instances of each of the 8 kinds after every add, remove, update and
\* toggle; an add for a kind that has 3 instances leaves the settings as
\* they are.
C24_InstanceCap ==
    /\ [](AtMostThree(settings.indicators) /\ AtMostThree(indicators))
    /\ [][\A type \in IndicatorTypes :
            (addIndicator(type) /\ InstancesOf(indicators, type) >= 3)
                => settings' = settings]_vars

\* The last click was an add for a kind with 3 instances, and the settings
\* are still those on screen; another kind has grown to 3 instances.
C24_Witness ==
    /\ lastOp.op = "addIndicator"
    /\ InstancesOf(indicators, lastOp.arg) = 3
    /\ settings.indicators = indicators
    /\ \E n \in 1..Len(indicators) :
        /\ indicators[n].type # lastOp.arg
        /\ indicators[n].id > 6
        /\ InstancesOf(indicators, indicators[n].type) = 3

\* C25: a sweep at time now leaves exactly the signals with expiresAt > now,
\* each as it was and in their order, and leaves the dedupe set alone; the
\* sweep timer runs as long as the hook is mounted, enabled or not, and a
\* change of `enabled` does not touch it.
C25_ExpirySweep ==
    /\ [](mounted => sweepTimer # {})
    /\ [][/\ Sweep =>
              /\ \A n \in 1..Len(signals) :
                    signals[n].expiresAt <= now <=> signals[n] \notin Range(signals')
              /\ Range(signals') \subseteq Range(signals)
              /\ \A m, n \in 1..Len(signals') :
                    m < n => \E i, j \in 1..Len(signals) :
                                /\ i < j
                                /\ signals[i] = signals'[m]
                                /\ signals[j] = signals'[n]
              /\ DedupeUnchanged
          /\ enabled' # enabled => sweepTimer' = sweepTimer]_vars

\* A sweep has just run, a full signal lifetime after a cycle that alerted:
\* the signal of that cycle, expiring at this very millisecond, is gone, and
\* a younger signal is still there.
C25_Witness ==
    /\ sweepTimer = {now + SWEEP_INTERVAL}
    /\ \E key \in DOMAIN alertLog :
        /\ alertLog[key][Len(alertLog[key])] + SIGNAL_DURATION = now
        /\ \A n \in 1..Len(signals) : signals[n].symbol # key[1]
    /\ \E n \in 1..Len(signals) : signals[n].expiresAt > now

\* A sweep has just run while the scanner was disabled, and removed what
\* there was.
C25_WitnessDisabled ==
    /\ mounted
    /\ ~enabled
    /\ now > LongStarts.late
    /\ sweepTimer = {now + SWEEP_INTERVAL}
    /\ signals = <<>>
    /\ alertLog # <<>>

C26_WitnessOver ==
    /\ alertedSize > 500
    /\ cycles # <<>>

\* The alerts emitted for a dedupe key so far.
AlertsOf(log, key) == IF key \in DOMAIN log THEN Len(log[key]) ELSE 0

\* C29: the test of a dedupe key and its insertion happen in one step,
\* whatever cycles are in flight: a step that emits an alert emits one, for
\* a key that was not in the dedupe set and is in it afterwards, and puts
\* its signal into the live set; a signal appears in no other way.
C29_AtomicTestAndInsert ==
    [][/\ \A key \in DOMAIN alertLog' :
            AlertsOf(alertLog', key) > AlertsOf(alertLog, key) =>
                /\ key \notin alerted
                /\ key \in alerted'
                /\ AlertsOf(alertLog', key) = AlertsOf(alertLog, key) + 1
                /\ \A other \in DOMAIN alertLog' \ {key} :
                      AlertsOf(alertLog', other) = AlertsOf(alertLog, other)
                /\ mounted => \E n \in 1..Len(signals') :
                                 /\ signals'[n].symbol = key[1]
                                 /\ signals'[n].direction = key[3]
                                 /\ signals'[n] \notin Range(signals)
       /\ Range(signals') \ Range(signals) # {} => alertLog' # alertLog]_vars

\* Two cycles are in flight and both have found the same direction for the
\* first symbol of their list, under the one dedupe key there is for it: the
\* one alerted, the other went on to its next fetch without alerting.
C29_Witness ==
    \E c, d \in DOMAIN cycles, key \in DOMAIN alertLog :
        /\ c # d
        /\ alertLog[key] = <<cycles[c].now>>
        /\ key \in alerted
        /\ cycles[d].now # cycles[c].now
        /\ cycles[d].wl[1] = key[1]
        /\ cycles[d].i = 2
        /\ cycles[d].pc = "fetch"
        /\ cycles[d].found = key[3]
        /\ \A other \in DOMAIN alertLog :
              (other[1] = key[1] /\ other[3] = key[3]) => other = key

\* C30: a step that changes the watchlist or the enabled flag leaves the
\* live signals, the dedupe set and the alerts emitted as they are, and sets
\* the scan timers anew: with the scanner enabled after the change the next
\* scan is due 3 s and the first interval tick 10 s after it, with the
\* scanner disabled none is due.
C30_ChangeKeepsSignals ==
    [][(watchlist' # watchlist \/ enabled' # enabled) =>
            /\ signals' = signals
            /\ DedupeUnchanged
            /\ alertLog' = alertLog
            /\ scanTimeout' = IF enabled' THEN {now + 3000} ELSE {}
            /\ scanInterval' = IF enabled' THEN {now + 10000} ELSE {}]_vars

\* The watchlist has just lost a symbol whose signal is live, and is not
\* empty: the signal is still there, its key is still in the dedupe set and
\* the scan timers are set anew.
C30_Witness ==
    /\ enabled
    /\ watchlist # <<>>
    /\ scanTimeout = {now + INITIAL_SCAN_DELAY}
    /\ scanInterval = {now + SCAN_INTERVAL}
    /\ \E n \in 1..Len(signals) :
        /\ signals[n].symbol \notin Range(watchlist)
        /\ signals[n].expiresAt > now
        /\ \E key \in alerted : key[1] = signals[n].symbol /\ key[3] = signals[n].direction

\* The scanner has just been disabled with a signal live: the signal is
\* still there and no scan is due.
C30_WitnessDisabled ==
    /\ mounted
    /\ ~enabled
    /\ scanTimeout = {}
    /\ scanInterval = {}
    /\ \E n \in 1..Len(signals) : signals[n].expiresAt > now

====
